---- MODULE Spec2Model ----
(***************************************************************************)
(* A model of real48.py: the reassembler combine_ints and the decoder      *)
(* class real48 (constructor, reverse_bytes, to_single, to_double, value). *)
(*                                                                         *)
(* Python integers are unbounded and the code forms values up to 2^64, so  *)
(* integers that can leave the 32-bit range are kept as "wide" integers:   *)
(* five limbs in base 2^16, least significant first, the lower four in     *)
(* 0..65535 and the top one signed.  Floating-point values are kept        *)
(* exactly, as sign * mant * 2^exp with mant an odd wide integer, so that  *)
(* results of the three conversions can be compared bit for bit.           *)
(***************************************************************************)
EXTENDS Integers, Sequences, FiniteSets, TLC

VARIABLES inst, byte_str, sign, exp, call

vars == <<inst, byte_str, sign, exp, call>>

(***************************************************************************)
(* Wide integers (Python int).                                             *)
(***************************************************************************)
LimbBase == 2^16

LimbIdx == 1..5

\* the wide integer with the value of the un-normalised limb sequence s:
\* carries are propagated upwards, the top limb keeps the sign
WNorm(s) ==
    LET t1 == s[1]
        t2 == s[2] + (t1 \div LimbBase)
        t3 == s[3] + (t2 \div LimbBase)
        t4 == s[4] + (t3 \div LimbBase)
        t5 == s[5] + (t4 \div LimbBase)
    IN  <<t1 % LimbBase, t2 % LimbBase, t3 % LimbBase, t4 % LimbBase, t5>>

\* an integer of at most 31 bits as a wide integer
W(n) == WNorm(<<n, 0, 0, 0, 0>>)

WAdd(a, b) == WNorm(<<a[1] + b[1], a[2] + b[2], a[3] + b[3], a[4] + b[4], a[5] + b[5]>>)

WNeg(a) == WNorm(<<0 - a[1], 0 - a[2], 0 - a[3], 0 - a[4], 0 - a[5]>>)

WIsZero(a) == \A i \in LimbIdx : a[i] = 0

\* a < 0 : the top limb carries the sign
WIsNeg(a) == a[5] < 0

\* a <= b
WLeq(a, b) == ~WIsNeg(WAdd(b, WNeg(a)))

\* a * 2^16
WShlLimb(a) == <<0, a[1], a[2], a[3], a[4] + LimbBase * a[5]>>

RECURSIVE WShl(_, _)
\* a << n
WShl(a, n) ==
    IF n >= 16 THEN WShl(WShlLimb(a), n - 16)
    ELSE WNorm(<<a[1] * (2^n), a[2] * (2^n), a[3] * (2^n), a[4] * (2^n), a[5] * (2^n)>>)

\* a is even
WEven(a) == a[1] % 2 = 0

\* a \div 2 for a >= 0
WHalf(a) ==
    <<(a[1] \div 2) + (a[2] % 2) * (2^15), (a[2] \div 2) + (a[3] % 2) * (2^15),
      (a[3] \div 2) + (a[4] % 2) * (2^15), (a[4] \div 2) + (a[5] % 2) * (2^15),
      a[5] \div 2>>

\* a \div 2^16 for a >= 0
WShrLimb(a) == <<a[2], a[3], a[4], a[5], 0>>

\* 0 <= a < 2^53 : a fits the significand of a double
WFits53(a) == a[5] = 0 /\ a[4] < 32

(***************************************************************************)
(* Exact floating-point values (Python float, an IEEE-754 double).         *)
(***************************************************************************)
FZero(neg) == [kind |-> "zero", neg |-> neg, mant |-> W(0), exp |-> 0]

FInf(neg) == [kind |-> "inf", neg |-> neg, mant |-> W(0), exp |-> 0]

FNaN == [kind |-> "nan", neg |-> 0, mant |-> W(0), exp |-> 0]

\* a result the double format cannot hold exactly (it would be rounded)
FInexact == [kind |-> "inexact", neg |-> 0, mant |-> W(0), exp |-> 0]

RECURSIVE FReduce(_, _, _)
\* (-1)^neg * m * 2^e, m > 0, with the factors of two moved into e; every
\* odd m < 2^53 with -1074 <= e <= 971 is a double
FReduce(neg, m, e) ==
    IF m[1] = 0 THEN FReduce(neg, WShrLimb(m), e + 16)
    ELSE IF WEven(m) THEN FReduce(neg, WHalf(m), e + 1)
    ELSE IF WFits53(m) /\ e >= -1074 /\ e <= 971
         THEN [kind |-> "finite", neg |-> neg, mant |-> m, exp |-> e]
         ELSE FInexact

\* the double (-1)^neg * m * 2^e for a wide m >= 0
FMake(neg, m, e) == IF WIsZero(m) THEN FZero(neg) ELSE FReduce(neg, m, e)

\* float(n) for an int n in 0..255
FFromInt(n) == FMake(0, W(n), 0)

\* the signed wide significand of x scaled to the exponent e <= x.exp
FAligned(x, e) ==
    IF x.neg = 1 THEN WNeg(WShl(x.mant, x.exp - e)) ELSE WShl(x.mant, x.exp - e)

\* x + y
FAdd(x, y) ==
    IF x.kind # "finite" /\ x.kind # "zero" THEN x
    ELSE IF y.kind # "finite" /\ y.kind # "zero" THEN y
    ELSE IF x.kind = "zero" /\ y.kind = "zero"
         THEN FZero(IF x.neg = 1 /\ y.neg = 1 THEN 1 ELSE 0)
    ELSE IF x.kind = "zero" THEN y
    ELSE IF y.kind = "zero" THEN x
    ELSE LET e == IF x.exp < y.exp THEN x.exp ELSE y.exp
             s == WAdd(FAligned(x, e), FAligned(y, e))
         IN  IF WIsZero(s) THEN FZero(0)
             ELSE IF WIsNeg(s) THEN FMake(1, WNeg(s), e)
             ELSE FMake(0, s, e)

\* -x
FNeg(x) == IF x.kind = "nan" \/ x.kind = "inexact" THEN x ELSE [x EXCEPT !.neg = 1 - x.neg]

\* x * 2^k, the product of x and an exact power of two
FScale2(x, k) == IF x.kind = "finite" THEN FMake(x.neg, x.mant, x.exp + k) ELSE x

\* x / 256.0
FDiv256(x) == FScale2(x, -8)

\* 2.0 ** k for an int k
FPow2(k) == FMake(0, W(1), k)

\* x * y where x is a power of two
FMulPow2(x, y) ==
    IF x.kind = "finite" /\ x.mant = W(1) /\ x.neg = 0 THEN FScale2(y, x.exp)
    ELSE FInexact

(***************************************************************************)
(* struct.pack / struct.unpack, big-endian.                                *)
(***************************************************************************)
\* s[i] with Python's 0-based index
At(s, i) == s[i + 1]

Ok(v) == [status |-> "ok", val |-> v]

Raise(e) == [status |-> e, val |-> <<>>]

\* the two bytes of a limb, most significant first
LimbBytes(l) == <<l \div 256, l % 256>>

\* struct.pack('>h', n) : 16-bit two's complement, or struct.error
pack_h(n) ==
    IF WLeq(W(-32768), n) /\ WLeq(n, W(32767))
    THEN Ok(LimbBytes(n[1]))
    ELSE Raise("struct.error")

\* struct.pack('>i', n) : 32-bit two's complement, or struct.error
pack_i(n) ==
    IF WLeq(WShl(W(-32768), 16), n) /\ WLeq(n, WAdd(WShl(W(32767), 16), W(65535)))
    THEN Ok(LimbBytes(n[2]) \o LimbBytes(n[1]))
    ELSE Raise("struct.error")

\* struct.pack('>I', n) : needs 0 <= n < 2^32
pack_I(n) ==
    IF n[3] = 0 /\ n[4] = 0 /\ n[5] = 0
    THEN Ok(LimbBytes(n[2]) \o LimbBytes(n[1]))
    ELSE Raise("struct.error")

\* struct.pack('>Q', n) : needs 0 <= n < 2^64
pack_Q(n) ==
    IF n[5] = 0
    THEN Ok(LimbBytes(n[4]) \o LimbBytes(n[3]) \o LimbBytes(n[2]) \o LimbBytes(n[1]))
    ELSE Raise("struct.error")

\* struct.unpack('>f', b)[0] : the IEEE-754 single held in 4 bytes
unpack_f(b) ==
    LET s == At(b, 0) \div 128
        e == (At(b, 0) % 128) * 2 + At(b, 1) \div 128
        f == (At(b, 1) % 128) * 65536 + At(b, 2) * 256 + At(b, 3)
    IN  IF e = 255 THEN (IF f = 0 THEN FInf(s) ELSE FNaN)
        ELSE IF e = 0 THEN FMake(s, W(f), -149)
        ELSE FMake(s, W(8388608 + f), e - 150)

\* struct.unpack('>d', b)[0] : the IEEE-754 double held in 8 bytes
unpack_d(b) ==
    LET s == At(b, 0) \div 128
        e == (At(b, 0) % 128) * 16 + At(b, 1) \div 16
        f == <<At(b, 6) * 256 + At(b, 7), At(b, 4) * 256 + At(b, 5),
               At(b, 2) * 256 + At(b, 3), At(b, 1) % 16, 0>>
        one == WShl(W(1), 52)
    IN  IF e = 2047 THEN (IF WIsZero(f) THEN FInf(s) ELSE FNaN)
        ELSE IF e = 0 THEN FMake(s, f, -1074)
        ELSE FMake(s, WAdd(one, f), e - 1075)

\* combine_ints with the natural 16-bit lower bound -32768
combine_ints_sym(int2, int4) ==
    IF /\ WLeq(W(-32768), int2) /\ WLeq(int2, W(32767))
       /\ WLeq(WShl(W(-32768), 16), int4)
       /\ WLeq(int4, WAdd(WShl(W(32767), 16), W(65535)))
    THEN Ok(pack_i(int4).val \o pack_h(int2).val)
    ELSE Raise("ValueError")

\* combine_ints with the two blocks concatenated in the other order
combine_ints_swapped(int2, int4) ==
    IF /\ WLeq(W(-32767), int2) /\ WLeq(int2, W(32767))
       /\ WLeq(WShl(W(-32768), 16), int4)
       /\ WLeq(int4, WAdd(WShl(W(32767), 16), W(65535)))
    THEN Ok(pack_h(int2).val \o pack_i(int4).val)
    ELSE Raise("ValueError")

(***************************************************************************)
(* real48.py                                                               *)
(***************************************************************************)
\* combine_ints(int2, int4), both wide integers
combine_ints(int2, int4) ==
    IF /\ WLeq(W(-32767), int2) /\ WLeq(int2, W(32767))
       /\ WLeq(WShl(W(-32768), 16), int4)
       /\ WLeq(int4, WAdd(WShl(W(32767), 16), W(65535)))
    THEN LET small == pack_h(int2)
             big == pack_i(int4)
         IN  IF small.status # "ok" THEN small
             ELSE IF big.status # "ok" THEN big
             ELSE Ok(big.val \o small.val)
    ELSE Raise("ValueError")

\* real48.__extract_sign__
extract_sign(r48) == (At(r48, 0) \div 128) % 2

\* real48.__extract_exponent__
extract_exponent(r48) == At(r48, 5)

\* real48.__init__ rejecting only byte strings that are too short
real48_init_short(arg) ==
    IF arg.type # "bytes" THEN Raise("TypeError")
    ELSE IF Len(arg.data) < 6 THEN Raise("FloatingPointError")
    ELSE Ok([byte_str |-> arg.data,
             sign |-> extract_sign(arg.data),
             exp |-> extract_exponent(arg.data)])

\* real48.__init__ : arg is [type, data]; the new instance's fields, or the error
real48_init(arg) ==
    IF arg.type # "bytes" THEN Raise("TypeError")
    ELSE IF Len(arg.data) # 6 THEN Raise("FloatingPointError")
    ELSE Ok([byte_str |-> arg.data,
             sign |-> extract_sign(arg.data),
             exp |-> extract_exponent(arg.data)])

\* byte_str[::-1]
RECURSIVE Reversed(_)
Reversed(s) == IF s = <<>> THEN <<>> ELSE Append(Reversed(Tail(s)), Head(s))

\* reverse_bytes that leaves the cached sign and exp as they were
reverse_bytes_stale(o) ==
    [byte_str |-> Reversed(o.byte_str), sign |-> o.sign, exp |-> o.exp]

\* reverse_bytes that recomputes exp but not sign
reverse_bytes_stale_sign(o) ==
    [byte_str |-> Reversed(o.byte_str), sign |-> o.sign,
     exp |-> extract_exponent(Reversed(o.byte_str))]

\* real48.reverse_bytes on the instance o : its fields afterwards
reverse_bytes(o) ==
    LET r == Reversed(o.byte_str)
    IN  [byte_str |-> r, sign |-> extract_sign(r), exp |-> extract_exponent(r)]

\* real48.to_single on the instance o
to_single(o) ==
    LET mant == ((At(o.byte_str, 0) % 128) * 65536)
                + (At(o.byte_str, 1) * 256)
                + At(o.byte_str, 2)
        unbias_exp == o.exp - 2
        bits == WAdd(WAdd(WShl(W(o.sign), 31), WShl(W(unbias_exp), 23)), W(mant))
        reformed_byte_str == pack_I(bits)
    IN  IF o.exp = 0 THEN Ok(FZero(0))
        ELSE IF reformed_byte_str.status # "ok" THEN reformed_byte_str
        ELSE Ok(unpack_f(reformed_byte_str.val))

\* to_double with the mantissa shifted by 12 instead of 13
to_double_shift12(o) ==
    LET mant == WAdd(WAdd(WAdd(WAdd(WShl(W(At(o.byte_str, 0) % 128), 32),
                                    WShl(W(At(o.byte_str, 1)), 24)),
                               WShl(W(At(o.byte_str, 2)), 16)),
                          WShl(W(At(o.byte_str, 3)), 8)),
                     W(At(o.byte_str, 4)))
        bits == WAdd(WAdd(WShl(W(o.sign), 63), WShl(W(o.exp + 894), 52)), WShl(mant, 12))
    IN  IF o.exp = 0 THEN Ok(FZero(0)) ELSE Ok(unpack_d(pack_Q(bits).val))

\* real48.to_double on the instance o
to_double(o) ==
    LET mant == WAdd(WAdd(WAdd(WAdd(WShl(W(At(o.byte_str, 0) % 128), 32),
                                    WShl(W(At(o.byte_str, 1)), 24)),
                               WShl(W(At(o.byte_str, 2)), 16)),
                          WShl(W(At(o.byte_str, 3)), 8)),
                     W(At(o.byte_str, 4)))
        unbias_exp == o.exp + 894
        bits == WAdd(WAdd(WShl(W(o.sign), 63), WShl(W(unbias_exp), 52)), WShl(mant, 13))
        reformed_byte_str == pack_Q(bits)
    IN  IF o.exp = 0 THEN Ok(FZero(0))
        ELSE IF reformed_byte_str.status # "ok" THEN reformed_byte_str
        ELSE Ok(unpack_d(reformed_byte_str.val))

\* real48.value on the instance o
value(o) ==
    LET a0 == At(o.byte_str, 0)
        a1 == At(o.byte_str, 1)
        a2 == At(o.byte_str, 2)
        a3 == At(o.byte_str, 3)
        a4 == At(o.byte_str, 4)
        a5 == At(o.byte_str, 5)
        sgn == a0 \div 128
        e == a5 - 129
        f4 == FDiv256(FFromInt(a4))
        f3 == FDiv256(FAdd(FFromInt(a3), f4))
        f2 == FDiv256(FAdd(FFromInt(a2), f3))
        f1 == FDiv256(FAdd(FFromInt(a1), f2))
        f0 == FDiv256(FMulPow2(FPow2(1), FAdd(FFromInt(a0 % 128), f1)))
        mant0 == IF a5 = 0 THEN FZero(0) ELSE FAdd(FFromInt(1), f0)
        mant == IF sgn = 1 THEN FNeg(mant0) ELSE mant0
    IN  Ok(FMulPow2(FPow2(e), mant))

(***************************************************************************)
(* Inputs.                                                                 *)
(***************************************************************************)
\* number of further byte values tried in bytes 0 and 5
NumExtraEnd == 0

\* number of further byte values tried in bytes 1..4
NumExtraMid == 1

\* longest byte string handed to the constructor
MaxLen == 7

\* number of further integers tried by combine_ints beside the range edges
NumExtraInts == 2

MoreBytes(n) == {(i * 90) % 256 : i \in 1..n}

\* exponent bytes 0, 1, 2, 129, 254, 255; sign bit clear (0, 1, 2) and set
EndBytes == {0, 1, 2, 128, 129, 254, 255} \cup MoreBytes(NumExtraEnd)

MidBytes == {0, 255} \cup MoreBytes(NumExtraMid)

Buffers ==
    {<<b0, b1, b2, b3, b4, b5>> :
        b0 \in EndBytes, b1 \in MidBytes, b2 \in MidBytes,
        b3 \in MidBytes, b4 \in MidBytes, b5 \in EndBytes}

\* arguments of real48(...) : 6-byte strings, byte strings of other lengths,
\* and objects that are not bytes
InitArgs ==
    {[type |-> "bytes", data |-> b] : b \in Buffers}
    \cup {[type |-> "bytes", data |-> [i \in 1..n |-> 129]] : n \in (0..MaxLen) \ {6}}
    \cup {[type |-> t, data |-> [i \in 1..6 |-> 129]] : t \in {"bytearray", "str"}}

\* hi * 2^16 + lo as a wide integer
WHiLo(hi, lo) == WAdd(WShl(W(hi), 16), W(lo))

Int2Samples ==
    {W(n) : n \in {-32769, -32768, -32767, -1, 0, 1000, 32767, 32768}
                  \cup {i * 7919 : i \in 1..NumExtraInts}}

Int4Samples ==
    {WHiLo(-32769, 65535), WHiLo(-32768, 0), W(-1), W(0), W(123456),
     WHiLo(32767, 65535), WHiLo(32768, 0)}
    \cup {WHiLo(0 - i * 4099, 4660) : i \in 1..NumExtraInts}

(***************************************************************************)
(* The state: one real48 instance (inst = "none" before the first          *)
(* successful construction) and the last call made with its outcome.       *)
(***************************************************************************)
self == [byte_str |-> byte_str, sign |-> sign, exp |-> exp]

NoCall == [op |-> "none"]

Init ==
    /\ inst = "none"
    /\ byte_str = <<>>
    /\ sign = 0
    /\ exp = 0
    /\ call = NoCall

\* r = real48(arg) : the instance the model follows is constructed once; a
\* failed construction leaves no instance, and the caller may try again
Construct(arg) ==
    LET r == real48_init(arg)
    IN  /\ inst = "none"
        /\ call' = [op |-> "__init__", arg |-> arg, status |-> r.status]
        /\ IF r.status = "ok"
           THEN /\ inst' = "live"
                /\ byte_str' = r.val.byte_str
                /\ sign' = r.val.sign
                /\ exp' = r.val.exp
           ELSE UNCHANGED <<inst, byte_str, sign, exp>>

\* real48(arg) on an argument supplied directly
New == \E arg \in InitArgs : Construct(arg)

\* r.reverse_bytes()
ReverseBytes ==
    /\ inst = "live"
    /\ LET r == reverse_bytes(self)
       IN  /\ byte_str' = r.byte_str
           /\ sign' = r.sign
           /\ exp' = r.exp
    /\ call' = [op |-> "reverse_bytes", before |-> self,
                before2 |-> IF call.op = "reverse_bytes" THEN <<call.before>> ELSE <<>>]
    /\ UNCHANGED inst

\* the record of a conversion call
Returned(op, r) == [op |-> op, status |-> r.status, val |-> r.val]

\* r.to_single()
ToSingle ==
    /\ inst = "live"
    /\ call' = Returned("to_single", to_single(self))
    /\ UNCHANGED <<inst, byte_str, sign, exp>>

\* r.to_double()
ToDouble ==
    /\ inst = "live"
    /\ call' = Returned("to_double", to_double(self))
    /\ UNCHANGED <<inst, byte_str, sign, exp>>

\* r.value()
Value ==
    /\ inst = "live"
    /\ call' = Returned("value", value(self))
    /\ UNCHANGED <<inst, byte_str, sign, exp>>

\* combine_ints(int2, int4), called before the decoder is constructed
CombineInts ==
    \E int2 \in Int2Samples, int4 \in Int4Samples :
        LET r == combine_ints(int2, int4)
        IN  /\ inst = "none"
            /\ call' = [op |-> "combine_ints", int2 |-> int2, int4 |-> int4,
                        status |-> r.status, val |-> r.val]
            /\ UNCHANGED <<inst, byte_str, sign, exp>>

\* real48(combine_ints(int2, int4)) : the buffer just combined is decoded
NewCombined ==
    /\ call.op = "combine_ints"
    /\ call.status = "ok"
    /\ Construct([type |-> "bytes", data |-> call.val])

\* the decoder on buffers supplied directly
Next == New \/ ReverseBytes \/ ToSingle \/ ToDouble \/ Value

Spec == Init /\ [][Next]_vars

\* reassembler, then decoder
NextPipeline == CombineInts \/ NewCombined \/ ReverseBytes \/ ToSingle \/ ToDouble \/ Value

SpecPipeline == Init /\ [][NextPipeline]_vars

(***************************************************************************)
(* Properties.                                                             *)
(***************************************************************************)
Conversions == {"to_single", "to_double", "value"}

\* the result of conversion op on the instance o
Convert(op, o) ==
    IF op = "to_single" THEN to_single(o)
    ELSE IF op = "to_double" THEN to_double(o)
    ELSE value(o)

\* w \div 2^16 and w % 2^16 of a wide integer with |w| < 2^32
Hi(w) == IF w[5] < 0 THEN w[2] - 65536 ELSE w[2]

Lo(w) == w[1]

InRange2(w) == (Hi(w) = 0 /\ Lo(w) <= 32767) \/ (Hi(w) = -1 /\ Lo(w) >= 32769)

InRange4(w) == Hi(w) >= -32768 /\ Hi(w) <= 32767

\* the 39 mantissa bits of the stored buffer, as a wide integer
Mant39 ==
    WAdd(WShl(W(At(byte_str, 0) % 128), 32),
         WAdd(WShl(W(At(byte_str, 1) * 256 + At(byte_str, 2)), 16),
              W(At(byte_str, 3) * 256 + At(byte_str, 4))))

\* the cached fields agree with the stored buffer
Coherent ==
    /\ Len(byte_str) = 6
    /\ sign = At(byte_str, 0) \div 128
    /\ exp = At(byte_str, 5)

\* C1: combine_ints raises the range error, with no buffer returned, exactly
\* when int2 is outside -32767..32767 or int4 is outside -2^31..2^31-1, and
\* succeeds otherwise; (-32768, 0) fails and (32767, 2147483647) succeeds.
C1_RangeError ==
    call.op = "combine_ints" =>
        /\ call.status \in {"ok", "ValueError"}
        /\ (call.status = "ValueError") <=> ~(InRange2(call.int2) /\ InRange4(call.int4))
        /\ call.status = "ValueError" => call.val = <<>>
        /\ (call.int2 = W(-32768) /\ call.int4 = W(0)) => call.status = "ValueError"
        /\ (call.int2 = W(32767) /\ call.int4 = WHiLo(32767, 65535)) => call.status = "ok"

C1_Witness ==
    /\ call.op = "combine_ints"
    /\ call.int2 = W(-32768)
    /\ call.int4 = W(0)
    /\ call.status = "ValueError"

\* C2: a successful combine_ints returns 6 bytes, the big-endian two's
\* complement of int4 (4 bytes) followed by that of int2 (2 bytes), and the
\* real48 constructor accepts the result.
C2_Layout ==
    /\ (call.op = "combine_ints" /\ call.status = "ok") =>
           LET h4 == Hi(call.int4) % 65536
               l4 == Lo(call.int4)
               v2 == Lo(call.int2)
           IN  /\ Len(call.val) = 6
               /\ call.val = <<h4 \div 256, h4 % 256, l4 \div 256, l4 % 256,
                               v2 \div 256, v2 % 256>>
               /\ real48_init([type |-> "bytes", data |-> call.val]).status = "ok"
    /\ call.op = "__init__" => (call.status = "ok" /\ inst = "live" /\ byte_str = call.arg.data)

C2_Witness ==
    /\ call.op = "__init__"
    /\ call.status = "ok"
    /\ byte_str = <<0, 1, 226, 64, 3, 232>>

\* C3: constructing from a byte string whose length is not 6 fails with the
\* length error and leaves no instance; constructing from 6 bytes succeeds,
\* stores the bytes, and sets sign to bit 7 of byte 0 and exp to byte 5.
C3_Construction ==
    (call.op = "__init__" /\ call.arg.type = "bytes") =>
        IF Len(call.arg.data) # 6
        THEN call.status = "FloatingPointError" /\ inst = "none"
        ELSE /\ call.status = "ok"
             /\ inst = "live"
             /\ byte_str = call.arg.data
             /\ sign = At(call.arg.data, 0) \div 128
             /\ sign \in {0, 1}
             /\ exp = At(call.arg.data, 5)
             /\ exp \in 0..255

C3_Witness ==
    /\ call.op = "__init__"
    /\ call.arg.type = "bytes"
    /\ Len(call.arg.data) = 7
    /\ call.status = "FloatingPointError"

\* C4: reverse_bytes leaves byte i equal to the former byte 5-i and sets sign
\* and exp from the new byte 0 and byte 5; two calls in succession restore
\* the original bytes, sign and exp.
C4_Reverse ==
    call.op = "reverse_bytes" =>
        /\ \A i \in 0..5 : At(byte_str, i) = At(call.before.byte_str, 5 - i)
        /\ sign = At(byte_str, 0) \div 128
        /\ exp = At(byte_str, 5)
        /\ call.before2 # <<>> => self = call.before2[1]

C4_Witness ==
    /\ call.op = "reverse_bytes"
    /\ call.before2 # <<>>
    /\ byte_str # call.before.byte_str
    /\ sign # call.before.sign
    /\ exp # call.before.exp

\* C5: with exponent byte 0, to_single, to_double and value all return
\* positive zero, whatever the sign bit and the mantissa bits.
C5_ZeroExact ==
    (call.op \in Conversions /\ At(byte_str, 5) = 0) =>
        (call.status = "ok" /\ call.val = FZero(0))

\* C6: for exponent byte e in 1..254, to_double and value return the same
\* number, (-1)^sign * (1 + m/2^39) * 2^(e-129), m the 39 mantissa bits.
C6_DoubleIsValue ==
    (call.op \in {"to_double", "value"} /\ exp >= 1 /\ exp <= 254) =>
        /\ call.status = "ok"
        /\ call.val.kind = "finite"
        /\ call.val = FMake(sign, WAdd(WShl(W(1), 39), Mant39), exp - 168)
        /\ to_double(self) = value(self)

C6_Witness ==
    /\ call.op = "to_double"
    /\ exp = 254
    /\ sign = 1
    /\ At(byte_str, 4) = 255
    /\ call.status = "ok"

\* the instance built from the stored bytes with bit 7 of byte 0 flipped
SignFlipped ==
    real48_init([type |-> "bytes",
                 data |-> [byte_str EXCEPT ![1] = (@ + 128) % 256]]).val

\* C7: with a non-zero exponent byte, flipping bit 7 of byte 0 negates the
\* result of each conversion, and both calls complete normally.
C7_SignFlip ==
    (call.op \in Conversions /\ exp # 0) =>
        /\ call.status = "ok"
        /\ Convert(call.op, SignFlipped).status = "ok"
        /\ call.val.kind \in {"finite", "zero"}
        /\ Convert(call.op, SignFlipped).val = FNeg(call.val)

\* C8: with sign bit 0, all mantissa bits 0 and exponent byte e in 1..254,
\* each conversion returns exactly 2^(e-129).
C8_PowerOfTwo ==
    (/\ call.op \in Conversions
     /\ At(byte_str, 0) = 0
     /\ WIsZero(Mant39)
     /\ exp >= 1 /\ exp <= 254) =>
        (call.status = "ok" /\ call.val = FPow2(exp - 129))

\* C9: for exponent byte e in 1..255, to_single completes and returns the
\* single whose bit pattern is sign, e-2, and the top 23 mantissa bits, with
\* e-2 a valid non-negative 8-bit exponent field.
C9_SinglePattern ==
    (call.op = "to_single" /\ exp >= 1 /\ exp <= 255) =>
        /\ exp - 2 >= 0
        /\ call.status = "ok"
        /\ call.val = unpack_f(<<sign * 128 + (exp - 2) \div 2,
                                 ((exp - 2) % 2) * 128 + (At(byte_str, 0) % 128),
                                 At(byte_str, 1), At(byte_str, 2)>>)

\* C10: once constructed, the buffer has 6 bytes and sign and exp agree with
\* it; a conversion changes none of them, and repeating a conversion with
\* no call in between returns the same result.
C10_Coherence ==
    /\ [](inst = "live" => Coherent)
    /\ [][call'.op \in Conversions => UNCHANGED <<inst, byte_str, sign, exp>>]_vars
    /\ [][(call.op \in Conversions /\ call'.op = call.op) => call' = call]_vars

C10_Witness ==
    /\ call.op = "value"
    /\ inst = "live"
    /\ sign = 1
    /\ exp = 2
    /\ byte_str[2] = 90

====
